---- MODULE Spec2Model ----
(***************************************************************************)
(* The manifest side of the OCI registry core                              *)
(* (internal/registry/manifest.go): the handlers for                       *)
(*   GET/HEAD/PUT /v2/<name>/manifests/<reference>,                        *)
(*   GET /v2/<name>/tags/list, GET /v2/_catalog and                        *)
(*   GET /v2/<name>/referrers/<digest>,                                    *)
(* run against a manifest store, a blob store, an authorizer and an        *)
(* auditor.  Every handler is a sequence of steps, one step per call of a  *)
(* collaborator, so that the states between the steps are the states a     *)
(* concurrent request can observe.                                         *)
(***************************************************************************)
EXTENDS Integers, Sequences, FiniteSets, TLC

(***************************************************************************)
(* Bounds of the model.                                                    *)
(***************************************************************************)
\* PUT requests the model admits
MaxPuts == 2

(***************************************************************************)
(* Strings of the wire.  A path segment, a reference and a header value    *)
(* are all strings; a string is kept as the record of the three parts the  *)
(* code ever looks at: the text before a ':' (alg), the hex after it       *)
(* (hex, a number here) and, for a string without ':', its text (name).    *)
(***************************************************************************)
S(x) == [alg |-> "", hex |-> 0, name |-> x]

\* v1.Hash.String(): "<algorithm>:<hex>"
HashString(d) == [alg |-> "sha256", hex |-> d, name |-> ""]

\* v1.NewHash(s): the string parses as a digest iff it is sha256:<hex>
NewHashOk(s) == s.alg = "sha256"

NoString == S("")

\* the text of a string
Text(s) == IF s.alg = "" THEN s.name ELSE s.alg \o ":" \o ToString(s.hex)

\* strings.Join(elems, "/")
RECURSIVE Join(_)
Join(elems) ==
    IF elems = <<>> THEN ""
    ELSE IF Len(elems) = 1 THEN Text(elems[1])
    ELSE Text(elems[1]) \o "/" \o Join(Tail(elems))

\* the repositories and the tag of the model
Name1 == << S("acme"), S("app") >>
Name2 == << S("lib") >>
Names == {Name1, Name2}
Repo1 == Join(Name1)
Repo2 == Join(Name2)
\* the order in which the manifest store lists repositories and tags
RepoOrder == << Repo1, Repo2 >>
Tag1 == S("v1")
Tag2 == S("v2")
TagOrder == << Tag1, Tag2 >>

(***************************************************************************)
(* Media types (go-containerregistry pkg/v1/types).                        *)
(***************************************************************************)
OCIImageIndex == "application/vnd.oci.image.index.v1+json"
OCIManifestSchema1 == "application/vnd.oci.image.manifest.v1+json"
DockerManifestList == "application/vnd.docker.distribution.manifest.list.v2+json"
DockerManifestSchema2 == "application/vnd.docker.distribution.manifest.v2+json"
DockerForeignLayer == "application/vnd.docker.image.rootfs.foreign.diff.tar.gzip"
OCILayer == "application/vnd.oci.image.layer.v1.tar+gzip"
OctetStream == "application/octet-stream"

IsIndex(mt) == mt \in {OCIImageIndex, DockerManifestList}
IsImage(mt) == mt \in {OCIManifestSchema1, DockerManifestSchema2}
IsDistributable(mt) == mt # DockerForeignLayer

(***************************************************************************)
(* Request bodies.  A body is its bytes: a sequence of members of a JSON   *)
(* object, each member one "byte" of the model.  A member is               *)
(*   cfg   the config descriptor        (mt = config.mediaType, d = digest)*)
(*   subj  the subject descriptor       (d = subject.digest)               *)
(*   man   one entry of manifests[]     (mt = mediaType, d = digest)       *)
(*   layer one entry of layers[]        (mt = mediaType, d = digest)       *)
(*   blobs the top-level blobs array    (n = its length)                   *)
(*   junk  bytes that are no JSON                                          *)
(***************************************************************************)
Tok(k, mt, d, n) == [k |-> k, mt |-> mt, d |-> d, n |-> n]

HashMod == 65521

KindCode(k) ==
    CASE k = "cfg" -> 1 [] k = "subj" -> 2 [] k = "man" -> 3
      [] k = "blobs" -> 4 [] k = "layer" -> 5 [] OTHER -> 6

MTCode(mt) ==
    CASE mt = OCIImageIndex -> 1 [] mt = OCIManifestSchema1 -> 2
      [] mt = DockerManifestList -> 3 [] mt = DockerManifestSchema2 -> 4
      [] mt = DockerForeignLayer -> 5 [] mt = OCILayer -> 6
      [] mt = OctetStream -> 7 [] OTHER -> 0

ByteCode(t) == (KindCode(t.k) + 7 * MTCode(t.mt) + 67 * (t.n + 1) + 131 * (t.d + 1)) % HashMod

\* v1.SHA256(bytes): the digest of the bytes read, a number below HashMod
RECURSIVE SHA256(_)
SHA256(b) ==
    IF b = <<>> THEN 7
    ELSE (SHA256(SubSeq(b, 1, Len(b) - 1)) * 31 + ByteCode(b[Len(b)]) + 1) % HashMod

ArtifactType == "application/vnd.example.sbom"
Config == Tok("cfg", ArtifactType, 11, 0)

\* an image manifest without subject
ImageA == << Config >>
DigestA == SHA256(ImageA)
\* an image manifest whose subject is ImageA, with one layer
ImageB == << Config, Tok("subj", "", DigestA, 0), Tok("layer", OCILayer, 12, 0) >>
DigestB == SHA256(ImageB)
\* an index: a non-distributable entry (ImageB's digest) and an image entry (ImageA)
IndexA == << Tok("man", DockerForeignLayer, DigestB, 0), Tok("man", OCIManifestSchema1, DigestA, 0) >>
\* manifests that carry a top-level blobs array, empty and not
BlobsEmpty == << Config, Tok("blobs", "", 0, 0) >>
BlobsOne == << Config, Tok("blobs", "", 0, 1) >>
\* an index with a blobs array that lists ImageA
IndexBlobs == << Tok("man", OCIManifestSchema1, DigestA, 0), Tok("blobs", "", 0, 1) >>
\* an index of two images, ImageA and ImageB
IndexAB == << Tok("man", OCIManifestSchema1, DigestA, 0), Tok("man", DockerManifestSchema2, DigestB, 0) >>
\* bytes that are no JSON
Junk == << Tok("junk", "", 0, 0) >>

Bodies == {ImageA, ImageB, IndexA, IndexAB, BlobsEmpty, BlobsOne, IndexBlobs, Junk}

ValidJSON(b) == b # <<>> /\ \A i \in 1..Len(b) : b[i].k # "junk"

IsMan(t) == t.k = "man"
IsBlobs(t) == t.k = "blobs"
IsSubj(t) == t.k = "subj"
IsCfg(t) == t.k = "cfg"
IsLayer(t) == t.k = "layer"

\* v1.ParseIndexManifest: the decoded manifests[] of a JSON body
ParseIndexManifest(b) == [ok |-> ValidJSON(b), manifests |-> SelectSeq(b, IsMan)]

\* v1.ParseManifest: the decoded config, subject and layers of a JSON body
ParseManifest(b) ==
    [ok |-> ValidJSON(b), config |-> SelectSeq(b, IsCfg), subject |-> SelectSeq(b, IsSubj),
     layers |-> SelectSeq(b, IsLayer)]

\* the length of the top-level blobs array decoded from a JSON body (0 when absent)
BlobsLen(b) ==
    LET bl == SelectSeq(b, IsBlobs) IN IF bl = <<>> THEN 0 ELSE bl[Len(bl)].n

(***************************************************************************)
(* Errors of the wire (the regErr values of the error encoder).            *)
(***************************************************************************)
RegError(status, code, msg, d) == [status |-> status, code |-> code, msg |-> msg, digest |-> d]
NoError == RegError(0, "", "", -1)
regErrDenied == RegError(403, "DENIED", "", -1)
regErrDeniedQuotaExceeded == RegError(403, "DENIED", "quota exceeded", -1)
regErrNameInvalid == RegError(400, "NAME_INVALID", "", -1)
regErrNameUnknown == RegError(404, "NAME_UNKNOWN", "", -1)
regErrManifestUnknown == RegError(404, "MANIFEST_UNKNOWN", "", -1)
regErrMethodUnknown == RegError(405, "METHOD_UNKNOWN", "", -1)
regErrInternal == RegError(500, "INTERNAL", "", -1)
regErrManifestInvalid == RegError(400, "MANIFEST_INVALID", "", -1)

(***************************************************************************)
(* The manifest store: (repo, reference) -> manifest record.               *)
(***************************************************************************)
Manifest(ct, d, size) == [contentType |-> ct, digest |-> d, size |-> size]
NoManifest == Manifest("", -1, 0)
Key(repo, ref) == [repo |-> repo, ref |-> ref]

KnownRepos(ms) == {k.repo : k \in DOMAIN ms}

\* manifest.ManifestHandler.Get
ManifestGet(ms, repo, ref) ==
    IF repo \notin KnownRepos(ms) THEN [err |-> "name_unknown", m |-> NoManifest]
    ELSE IF Key(repo, ref) \notin DOMAIN ms THEN [err |-> "manifest_unknown", m |-> NoManifest]
    ELSE [err |-> "", m |-> ms[Key(repo, ref)]]

\* manifest.ManifestHandler.Put: the record is stored under the reference
ManifestPut(ms, repo, ref, mf, blobs) == (Key(repo, ref) :> mf) @@ ms

\* the first n elements of a sequence
Take(seq, n) == SubSeq(seq, 1, IF n < Len(seq) THEN n ELSE Len(seq))

\* the elements of a sequence of strings after the one whose text is last
After(seq, last) ==
    LET at == {j \in 1..Len(seq) : Text(seq[j]) = last} IN
    IF at = {} THEN seq ELSE SubSeq(seq, (CHOOSE j \in at : TRUE) + 1, Len(seq))

\* the numbers of a set in ascending order
RECURSIVE Ascending(_)
Ascending(set) ==
    IF set = {} THEN <<>>
    ELSE LET least == CHOOSE x \in set : \A y \in set : x <= y
         IN  << least >> \o Ascending(set \ {least})

\* manifest.ManifestHandler.ListTags: the tags of the repo after last, n at most
ListTags(ms, repo, n, last) ==
    IF repo \notin KnownRepos(ms) THEN [err |-> "name_unknown", tags |-> <<>>]
    ELSE [err |-> "",
          tags |-> Take(After(SelectSeq(TagOrder, LAMBDA t : Key(repo, t) \in DOMAIN ms), last), n)]

\* manifest.ManifestHandler.ListDigests: the digests recorded in the repo
ListDigests(ms, repo) ==
    IF repo \notin KnownRepos(ms) THEN [err |-> "name_unknown", digests |-> <<>>]
    ELSE [err |-> "",
          digests |-> Ascending({k.ref.hex : k \in {x \in DOMAIN ms : x.repo = repo /\ NewHashOk(x.ref)}})]

\* manifest.ManifestHandler.List: the repositories, n at most
List(ms, n) == Take(SelectSeq(RepoOrder, LAMBDA r : r \in KnownRepos(ms)), n)

(***************************************************************************)
(* The blob store: (repo, digest) -> bytes.                                *)
(***************************************************************************)
BKey(repo, d) == [repo |-> repo, digest |-> d]
BlobPresent(bs, repo, d) == BKey(repo, d) \in DOMAIN bs
\* blob.BlobPutHandler.Put
BlobPut(bs, repo, d, ct, bytes) == (BKey(repo, d) :> bytes) @@ bs
\* blob.BlobHandler.Get, the bytes of the reader it returns
BlobGet(bs, repo, d) == IF BlobPresent(bs, repo, d) THEN bs[BKey(repo, d)] ELSE <<>>
\* blob.BlobStatHandler.Stat
BlobStat(bs, repo, d) == Len(BlobGet(bs, repo, d))

(***************************************************************************)
(* URLs.  A path is the sequence strings.Split(req.URL.Path, "/") gives,   *)
(* the empty string before the leading slash included.                     *)
(***************************************************************************)
Elems(path) == Tail(path)

isManifest(path) ==
    LET elems == Elems(path) IN
    IF Len(elems) < 4 THEN FALSE ELSE elems[Len(elems) - 1] = S("manifests")

isTags(path) ==
    LET elems == Elems(path) IN
    IF Len(elems) < 4 THEN FALSE ELSE elems[Len(elems) - 1] = S("tags")

isCatalog(path) ==
    LET elems == Elems(path) IN
    IF Len(elems) < 2 THEN FALSE ELSE elems[Len(elems)] = S("_catalog")

isReferrers(path) ==
    LET elems == Elems(path) IN
    IF Len(elems) < 4 THEN FALSE ELSE elems[Len(elems) - 1] = S("referrers")

\* target := elem[len(elem)-1]
TargetOf(path) == LET elem == Elems(path) IN elem[Len(elem)]
\* repo := strings.Join(elem[1:len(elem)-2], "/")
RepoOf(path) == LET elem == Elems(path) IN Join(SubSeq(elem, 2, Len(elem) - 2))

\* the registry's dispatch on the shape of the path
Route(path) ==
    CASE isManifest(path) -> "handle"
      [] isTags(path) -> "handleTags"
      [] isCatalog(path) -> "handleCatalog"
      [] isReferrers(path) -> "handleReferrers"
      [] OTHER -> "blobs"

(***************************************************************************)
(* The requests of the model.                                              *)
(***************************************************************************)
Targets == {Tag1, HashString(DigestA), HashString(DigestB)}
PutTargets == {Tag1, HashString(DigestA)}
Methods == {"GET", "HEAD", "PUT", "DELETE"}

Root == << S(""), S("v2") >>
ManifestPath(name, target) == Root \o name \o << S("manifests"), target >>
TagsPath(name) == Root \o name \o << S("tags"), S("list") >>
CatalogPath == Root \o << S("_catalog") >>
ReferrersPath(name, target) == Root \o name \o << S("referrers"), target >>

\* the query parameters n and last of the listings
NValues == {"", "1", "x", "99999999999999999999"}
LastValues == {"", "v1"}

\* the largest int, the value strconv.Atoi returns with its range error (counted in
\* 32 bits)
MaxInt == 2147483647

\* strconv.Atoi: the value and whether err is nil; a syntax error comes with 0, a range
\* error with the largest int
Atoi(ns) ==
    CASE ns = "0" -> [ok |-> TRUE, n |-> 0]
      [] ns = "1" -> [ok |-> TRUE, n |-> 1]
      [] ns = "2" -> [ok |-> TRUE, n |-> 2]
      [] ns = "99999999999999999999" -> [ok |-> FALSE, n |-> MaxInt]
      [] OTHER -> [ok |-> FALSE, n |-> 0]

\* (Content-Type, body) of the PUT requests
PutInputs ==
    { << OCIManifestSchema1, ImageA >>, << OCIManifestSchema1, ImageB >>,
      << OCIImageIndex, IndexA >>, << DockerManifestList, IndexAB >>,
      << OCIManifestSchema1, BlobsEmpty >>,
      << OCIManifestSchema1, BlobsOne >>, << OCIImageIndex, IndexBlobs >>,
      << OctetStream, BlobsOne >>, << OCIManifestSchema1, Junk >>,
      << OCIImageIndex, Junk >>, << OctetStream, Junk >> }

Request(method, path, ct, body, n, last) ==
    [method |-> method, path |-> path, ctype |-> ct, body |-> body, n |-> n, last |-> last]
NoRequest == Request("", <<>>, "", <<>>, "", "")

\* the requests for the manifests of a repository, the pull of a tag named _catalog
\* among them
ManifestRequests ==
    {Request(method, ManifestPath(name, target), "", <<>>, "", "") :
        method \in Methods \ {"PUT"}, name \in Names, target \in Targets}
    \cup {Request("GET", ManifestPath(Name1, S("_catalog")), "", <<>>, "", "")}
\* with the pushes of a second tag in one repository
PutRequests ==
    {Request("PUT", ManifestPath(name, target), in[1], in[2], "", "") :
        name \in Names, target \in PutTargets, in \in PutInputs}
    \cup {Request("PUT", ManifestPath(Name1, Tag2), OCIManifestSchema1, ImageA, "", "")}
\* the requests for the listings
TagsRequests ==
    {Request(method, TagsPath(name), "", <<>>, n, last) :
        method \in Methods, name \in Names, n \in NValues, last \in LastValues}
CatalogRequests ==
    {Request(method, CatalogPath, "", <<>>, n, "") : method \in Methods, n \in NValues}
ReferrersRequests ==
    {Request(method, ReferrersPath(name, target), "", <<>>, "", "") :
        method \in Methods, name \in Names, target \in Targets}
Requests ==
    ManifestRequests \cup PutRequests \cup TagsRequests \cup CatalogRequests
        \cup ReferrersRequests

\* the requests two workers handle at the same time: the pulls of a tag and of a
\* digest of one repository, the pushes and a DELETE of the tag, and one request of
\* each listing
ConcRequests ==
    {Request(method, ManifestPath(Name1, target), "", <<>>, "", "") :
        method \in {"GET", "HEAD"}, target \in {Tag1, HashString(DigestA)}}
    \cup {Request("DELETE", ManifestPath(Name1, Tag1), "", <<>>, "", "")}
    \cup {Request("PUT", ManifestPath(Name1, Tag1), OCIManifestSchema1, body, "", "") :
            body \in {ImageA, ImageB}}
    \cup {Request("GET", TagsPath(Name1), "", <<>>, "", ""),
          Request("GET", CatalogPath, "", <<>>, "", ""),
          Request("GET", ReferrersPath(Name1, HashString(DigestA)), "", <<>>, "", "")}

\* the requests two workers handle at the same time when an index is pushed: the
\* pushes of an image and of an index that lists it, the pulls of their tag, and one
\* request of each listing
IndexRequests ==
    {Request(method, ManifestPath(Name1, Tag1), "", <<>>, "", "") : method \in {"GET", "HEAD"}}
    \cup {Request("PUT", ManifestPath(Name1, Tag1), OCIManifestSchema1, ImageA, "", ""),
          Request("PUT", ManifestPath(Name1, Tag1), OCIImageIndex, IndexA, "", "")}
    \cup {Request("GET", TagsPath(Name1), "", <<>>, "", ""),
          Request("GET", CatalogPath, "", <<>>, "", ""),
          Request("GET", ReferrersPath(Name1, HashString(DigestA)), "", <<>>, "", "")}

\* the requests the clients c send
Arriving(c) ==
    CASE c = "all" -> Requests
      [] c = "concurrent" -> ConcRequests
      [] c = "index" -> IndexRequests

\* the response written to the http.ResponseWriter
NoResponse ==
    [status |-> 0, digest |-> NoString, ctype |-> "", clen |-> -1,
     location |-> <<>>, subject |-> NoString, body |-> <<>>,
     name |-> "", list |-> <<>>, manifests |-> <<>>]

\* a redirect directive of the blob store
RedirectLocation == << S("https://blobs.example"), S("signed") >>

Slots == 1..2

VARIABLES
    workers,   \* requests the server handles at the same time
    clients,   \* which requests arrive: "all", "concurrent" or "index"
    mstore,    \* the manifest store
    bstore,    \* the blob store
    nput,      \* history: the number of PUT requests admitted
    puts,      \* history: the PUT requests whose transaction committed, in order
    pc,        \* per slot: the step its request is at
    rq,        \* per slot: the request
    loc,       \* per slot: the handler's locals: the manifest record looked up (m)
               \* or built (mf), the bytes buffered (buf), the size Stat gave (l),
               \* the digests listed (digests), the query parameters parsed (n, last);
               \* and, history, the number of PUTs
               \* committed when the request arrived (at) and whether the blob store
               \* held the bytes of its body then (had)
    resp,      \* per slot: what was written to the ResponseWriter
    ret,       \* per slot: the *regError the handler returned
    calls      \* per slot: the calls of collaborators made so far, with their outcomes

vars == << workers, clients, mstore, bstore, nput, puts, pc, rq, loc, resp, ret, calls >>

NoLocals == [m |-> NoManifest, buf |-> <<>>, l |-> -1, digests |-> <<>>, n |-> -1, last |-> "",
             at |-> 0, had |-> FALSE]

EmptyStore == [k \in {} |-> NoManifest]
EmptyBlobs == [k \in {} |-> <<>>]

InitRequests ==
    /\ mstore = EmptyStore
    /\ bstore = EmptyBlobs
    /\ nput = 0
    /\ puts = <<>>
    /\ pc = [i \in Slots |-> "idle"]
    /\ rq = [i \in Slots |-> NoRequest]
    /\ loc = [i \in Slots |-> NoLocals]
    /\ resp = [i \in Slots |-> NoResponse]
    /\ ret = [i \in Slots |-> NoError]
    /\ calls = [i \in Slots |-> <<>>]

\* one request at a time
Init == workers = 1 /\ clients = "all" /\ InitRequests

Call(c, o) == [c |-> c, o |-> o]
Called(i, c, o) == calls' = [calls EXCEPT ![i] = Append(@, Call(c, o))]
Goto(i, l) == pc' = [pc EXCEPT ![i] = l]
\* the handler returns the error e
Return(i, e) == ret' = [ret EXCEPT ![i] = e] /\ pc' = [pc EXCEPT ![i] = "done"]

\* a request arrives and is routed
Start(i) ==
    /\ i <= workers
    /\ pc[i] = "idle"
    /\ \E r \in Arriving(clients) :
         /\ r \in PutRequests => nput < MaxPuts
         /\ rq' = [rq EXCEPT ![i] = r]
         /\ pc' = [pc EXCEPT ![i] = Route(r.path)]
         /\ nput' = IF r \in PutRequests THEN nput + 1 ELSE nput
         /\ loc' = [loc EXCEPT ![i].at = Len(puts),
                               ![i].had = /\ r \in PutRequests
                                          /\ BlobPresent(bstore, RepoOf(r.path), SHA256(r.body))]
    /\ UNCHANGED << workers, clients, mstore, bstore, puts, resp, ret, calls >>

\* the response has been delivered: the worker is free for the next request
Finish(i) ==
    /\ pc[i] = "done"
    /\ pc' = [pc EXCEPT ![i] = "idle"]
    /\ rq' = [rq EXCEPT ![i] = NoRequest]
    /\ loc' = [loc EXCEPT ![i] = NoLocals]
    /\ resp' = [resp EXCEPT ![i] = NoResponse]
    /\ ret' = [ret EXCEPT ![i] = NoError]
    /\ calls' = [calls EXCEPT ![i] = <<>>]
    /\ UNCHANGED << workers, clients, mstore, bstore, nput, puts >>

AuthzOutcomes == {"ok", "denied", "invalid_name", "error"}

\* a mapping that knows ErrAccessDenied only
AuthzErrorDeniedOnly(o) == IF o = "denied" THEN regErrDenied ELSE regErrInternal

\* the regError of a failed authorization
AuthzError(o) ==
    IF o = "denied" THEN regErrDenied
    ELSE IF o = "invalid_name" THEN regErrNameInvalid
    ELSE regErrInternal

\* a switch whose HEAD case runs the storing half of handlePut
MethodHandlerStoring(method) ==
    CASE method = "GET" -> "handleGet"
      [] method = "HEAD" -> "put_blob"
      [] method = "PUT" -> "handlePut"
      [] OTHER -> "default"

\* a switch that sends DELETE to a handler
MethodHandlerDelete(method) ==
    CASE method = "GET" -> "handleGet"
      [] method = "HEAD" -> "handleHead"
      [] method \in {"PUT", "DELETE"} -> "handlePut"
      [] OTHER -> "default"

\* switch req.Method of manifests.handle: the handler of the method
MethodHandler(method) ==
    CASE method = "GET" -> "handleGet"
      [] method = "HEAD" -> "handleHead"
      [] method = "PUT" -> "handlePut"
      [] OTHER -> "default"

\* manifests.handle
Handle(i) ==
    /\ pc[i] = "handle"
    /\ IF MethodHandler(rq[i].method) = "default"
       THEN /\ Return(i, regErrMethodUnknown)
            /\ UNCHANGED calls
       ELSE \E o \in AuthzOutcomes :
              /\ Called(i, "authz", o)
              /\ IF o = "ok"
                 THEN Goto(i, MethodHandler(rq[i].method)) /\ UNCHANGED ret
                 ELSE Return(i, AuthzError(o))
    /\ UNCHANGED << workers, clients, mstore, bstore, nput, puts, rq, loc, resp >>

\* a mapping that knows ErrManifestUnknown only
LookupErrorUnnuanced(err) ==
    IF err = "manifest_unknown" THEN regErrManifestUnknown ELSE regErrInternal

\* the regError of a failed manifest lookup of handleGet and handleHead
LookupError(err) ==
    IF err = "name_unknown" THEN regErrNameUnknown
    ELSE IF err = "manifest_unknown" THEN regErrManifestUnknown
    ELSE regErrInternal

\* the outcomes of manifestHandler.Get: what the store holds, or a failure of the store
LookupOutcomes(repo, target) ==
    {ManifestGet(mstore, repo, target), [err |-> "error", m |-> NoManifest]}

\* handleGet and handleHead: m, err := handler.manifestHandler.Get(ctx, repo, target)
Lookup(i, here, next) ==
    /\ pc[i] = here
    /\ \E g \in LookupOutcomes(RepoOf(rq[i].path), TargetOf(rq[i].path)) :
         /\ Called(i, "manifest.Get", IF g.err = "" THEN "ok" ELSE g.err)
         /\ IF g.err = ""
            THEN /\ loc' = [loc EXCEPT ![i].m = g.m]
                 /\ Goto(i, next)
                 /\ UNCHANGED ret
            ELSE /\ Return(i, LookupError(g.err))
                 /\ UNCHANGED loc
    /\ UNCHANGED << workers, clients, mstore, bstore, nput, puts, rq, resp >>

GetLookup(i) == Lookup(i, "handleGet", "get_blob")
HeadLookup(i) == Lookup(i, "handleHead", "head_stat")

\* the outcomes of blobHandler.Get(ctx, repo, digest, true) and of reading its reader:
\* the bytes the store holds or "unknown" when it holds none; a redirect directive;
\* a failure of the store ("error") or of the reader ("read_error")
BlobGetOutcomes(repo, d) ==
    {"redirect", "error", "read_error"} \cup
    (IF BlobPresent(bstore, repo, d) THEN {"bytes"} ELSE {"unknown"})

\* a handleGet that redirects without auditing the pull
BlobGetNextUnaudited(o) ==
    CASE o = "redirect" -> "get_redirect"
      [] o = "bytes" -> "get_write"
      [] OTHER -> "done"

\* handleGet: the step that follows blobHandler.Get with outcome o
BlobGetNext(o) ==
    CASE o = "redirect" -> "get_redirect_audit"
      [] o = "bytes" -> "get_write"
      [] OTHER -> "done"

\* handleGet: b, err := handler.blobHandler.Get(...); io.Copy(&buf, b)
GetBlob(i) ==
    /\ pc[i] = "get_blob"
    /\ LET repo == RepoOf(rq[i].path) IN
       \E o \in BlobGetOutcomes(repo, loc[i].m.digest) :
         /\ Called(i, "blob.Get", o)
         /\ CASE o = "redirect" -> Goto(i, BlobGetNext(o)) /\ UNCHANGED << ret, loc >>
              [] o \in {"error", "unknown"} -> Return(i, regErrManifestUnknown) /\ UNCHANGED loc
              [] o = "read_error" -> Return(i, regErrInternal) /\ UNCHANGED loc
              [] o = "bytes" ->
                   /\ loc' = [loc EXCEPT ![i].buf = BlobGet(bstore, repo, loc[i].m.digest)]
                   /\ Goto(i, BlobGetNext(o))
                   /\ UNCHANGED ret
    /\ UNCHANGED << workers, clients, mstore, bstore, nput, puts, rq, resp >>

\* the headers and status of a pulled manifest
PullHeaders(mf, length) ==
    [NoResponse EXCEPT !.status = 200, !.digest = HashString(mf.digest),
                       !.ctype = mf.contentType, !.clen = length]

\* handleGet: Docker-Content-Digest, Content-Type, Content-Length = buf.Len(), 200
GetHeaders(m, buf) == PullHeaders(m, Len(buf))

\* a handleHead that sets no Content-Type
HeadHeadersNoType(m, l) == [PullHeaders(m, l) EXCEPT !.ctype = ""]

\* handleHead: Docker-Content-Digest, Content-Type, Content-Length = l, 200
HeadHeaders(m, l) == PullHeaders(m, l)

\* handleGet: the headers, WriteHeader(200) and io.Copy(resp, &buf)
GetWrite(i) ==
    /\ pc[i] = "get_write"
    /\ \E o \in {"ok", "error"} :
         /\ Called(i, "resp.Write", o)
         /\ LET headers == GetHeaders(loc[i].m, loc[i].buf) IN
            IF o = "ok"
            THEN /\ resp' = [resp EXCEPT ![i] = [headers EXCEPT !.body = loc[i].buf]]
                 /\ Goto(i, "get_audit")
                 /\ UNCHANGED ret
            ELSE /\ resp' = [resp EXCEPT ![i] = headers]
                 /\ Return(i, regErrInternal)
    /\ UNCHANGED << workers, clients, mstore, bstore, nput, puts, rq, loc >>

\* a handler that returns the error of AuditPull
AuditErrorReturned(o) == IF o = "error" THEN regErrInternal ELSE NoError

\* what the handler returns for the error of AuditPull: nothing, the error is logged
AuditError(o) == NoError

\* handler.audit.AuditPull(ctx, repo, target) at step here
Audit(i, here, next) ==
    /\ pc[i] = here
    /\ \E o \in {"ok", "error"} :
         /\ Called(i, "audit.AuditPull", o)
         /\ IF AuditError(o) = NoError
            THEN IF next = "done" THEN Return(i, NoError) ELSE Goto(i, next) /\ UNCHANGED ret
            ELSE Return(i, AuditError(o))
    /\ UNCHANGED << workers, clients, mstore, bstore, nput, puts, rq, loc, resp >>

GetAudit(i) == Audit(i, "get_audit", "done")
GetRedirectAudit(i) == Audit(i, "get_redirect_audit", "get_redirect")
HeadAudit(i) == Audit(i, "head_audit", "head_write")

\* handleGet: http.Redirect(resp, req, rerr.Location, rerr.Code)
GetRedirect(i) ==
    /\ pc[i] = "get_redirect"
    /\ Called(i, "resp.Write", "ok")
    /\ resp' = [resp EXCEPT ![i] = [NoResponse EXCEPT !.status = 307, !.location = RedirectLocation]]
    /\ Return(i, NoError)
    /\ UNCHANGED << workers, clients, mstore, bstore, nput, puts, rq, loc >>

\* the outcomes of the Stat capability of the blob store: the store has none
\* ("no_stat"), it fails ("error"), it holds no such blob ("unknown") or gives the size
StatOutcomes(repo, d) ==
    {"no_stat", "error"} \cup (IF BlobPresent(bstore, repo, d) THEN {"ok"} ELSE {"unknown"})

\* handleHead: the BlobStatHandler assertion and bsh.Stat(ctx, repo, m.Blob.Digest)
HeadStat(i) ==
    /\ pc[i] = "head_stat"
    /\ LET repo == RepoOf(rq[i].path) IN
       \E o \in StatOutcomes(repo, loc[i].m.digest) :
         /\ Called(i, "blob.Stat", o)
         /\ CASE o = "no_stat" -> Return(i, regErrInternal) /\ UNCHANGED loc
              [] o \in {"error", "unknown"} -> Return(i, regErrManifestUnknown) /\ UNCHANGED loc
              [] o = "ok" ->
                   /\ loc' = [loc EXCEPT ![i].l = BlobStat(bstore, repo, loc[i].m.digest)]
                   /\ Goto(i, "head_audit")
                   /\ UNCHANGED ret
    /\ UNCHANGED << workers, clients, mstore, bstore, nput, puts, rq, resp >>

\* handleHead: the headers and WriteHeader(200)
HeadWrite(i) ==
    /\ pc[i] = "head_write"
    /\ Called(i, "resp.Write", "ok")
    /\ resp' = [resp EXCEPT ![i] = HeadHeaders(loc[i].m, loc[i].l)]
    /\ Return(i, NoError)
    /\ UNCHANGED << workers, clients, mstore, bstore, nput, puts, rq, loc >>

(***************************************************************************)
(* handlePut.                                                              *)
(***************************************************************************)
\* an mf whose Blob.Size is left unset
PutManifestNoSize(ct, body) == Manifest(ct, SHA256(body), 0)

\* mf: the Content-Type header, the size and the digest of the buffered body
PutManifest(ct, body) == Manifest(ct, SHA256(body), Len(body))

Digests(descs) == [j \in 1..Len(descs) |-> descs[j].d]
IsCheckedStrict(desc) == IsDistributable(desc.mt) /\ (IsIndex(desc.mt) \/ IsImage(desc.mt))

\* an index branch that checks the presence of nested indexes only
CheckedIndexes(descs) == SelectSeq(descs, LAMBDA desc : IsDistributable(desc.mt) /\ IsIndex(desc.mt))

\* the sub-manifests of an index whose presence handlePut checks
CheckedManifests(descs) == SelectSeq(descs, IsCheckedStrict)

\* the index branch: the constituent manifests must be recorded in the repo;
\* down: the manifest store fails
IndexDependencies(ms, repo, body, down) ==
    LET im == ParseIndexManifest(body)
        descs == CheckedManifests(im.manifests)
        missing == {j \in 1..Len(descs) :
                      down \/ ManifestGet(ms, repo, HashString(descs[j].d)).err # ""}
        first == CHOOSE j \in missing : \A k \in missing : j <= k
    IN  IF ~im.ok THEN [err |-> regErrManifestInvalid, blobs |-> <<>>, gets |-> 0, why |-> ""]
        ELSE IF missing # {}
        THEN [err |-> RegError(404, "MANIFEST_UNKNOWN", "Sub-manifest not found", descs[first].d),
              blobs |-> <<>>, gets |-> first,
              why |-> IF down THEN "error"
                      ELSE ManifestGet(ms, repo, HashString(descs[first].d)).err]
        ELSE [err |-> NoError, blobs |-> Digests(descs), gets |-> Len(descs), why |-> ""]

IsDistributableLayer(t) == IsDistributable(t.mt)

\* the image branch: config, subject and the distributable layers
ImageDependencies(body) ==
    LET im == ParseManifest(body) IN
    IF ~im.ok THEN [err |-> regErrManifestInvalid, blobs |-> <<>>, gets |-> 0, why |-> ""]
    ELSE [err |-> NoError,
          blobs |-> (IF im.config = <<>> THEN << 0 >> ELSE << im.config[1].d >>)
                    \o Digests(im.subject)
                    \o Digests(SelectSeq(im.layers, IsDistributableLayer)),
          gets |-> 0, why |-> ""]

\* the dependencies of the manifest, by its Content-Type
Dependencies(ms, repo, ct, body, down) ==
    IF IsIndex(ct) THEN IndexDependencies(ms, repo, body, down)
    ELSE IF IsImage(ct) THEN ImageDependencies(body)
    ELSE [err |-> NoError, blobs |-> <<>>, gets |-> 0, why |-> ""]

\* a check that looks at the JSON only
checkJSONOnly(data) == IF ~ValidJSON(data) THEN regErrManifestInvalid ELSE NoError

checkIncompatibleManifest(data) ==
    IF ~ValidJSON(data) THEN regErrManifestInvalid
    ELSE IF BlobsLen(data) > 0
    THEN RegError(400, "MANIFEST_INVALID", "non-compliant manifest with blobs entry detected", -1)
    ELSE NoError

\* the calls of manifestHandler.Get the index branch made: all found but a failing last
GetCalls(deps) ==
    [j \in 1..deps.gets |->
        Call("manifest.Get", IF deps.err # NoError /\ j = deps.gets THEN deps.why ELSE "ok")]

\* handlePut up to checkIncompatibleManifest: the body is buffered, mf and the
\* dependencies are computed
PutCheck(i) ==
    /\ pc[i] = "handlePut"
    /\ \E read \in {"ok", "error"}, down \in BOOLEAN :
         LET repo == RepoOf(rq[i].path)
             deps == Dependencies(mstore, repo, rq[i].ctype, rq[i].body, down)
             bad == checkIncompatibleManifest(rq[i].body)
         IN  IF read = "error"
             THEN /\ ~down
                  /\ Called(i, "req.Body.Read", "error")
                  /\ Return(i, regErrInternal)
                  /\ UNCHANGED loc
             ELSE /\ down => deps.gets > 0
                  /\ calls' = [calls EXCEPT ![i] = @ \o GetCalls(deps)]
                  /\ loc' = [loc EXCEPT ![i].m = PutManifest(rq[i].ctype, rq[i].body),
                                        ![i].buf = rq[i].body]
                  /\ IF deps.err # NoError THEN Return(i, deps.err)
                     ELSE IF bad # NoError THEN Return(i, bad)
                     ELSE Goto(i, "put_blob") /\ UNCHANGED ret
    /\ UNCHANGED << workers, clients, mstore, bstore, nput, puts, rq, resp >>

\* handlePut: the BlobPutHandler assertion and bph.Put(ctx, repo, digest, contentType, buf)
PutBlob(i) ==
    /\ pc[i] = "put_blob"
    /\ \E o \in {"ok", "no_put", "error"} :
         /\ Called(i, "blob.Put", o)
         /\ IF o = "ok"
            THEN /\ bstore' = BlobPut(bstore, RepoOf(rq[i].path), loc[i].m.digest,
                                      loc[i].m.contentType, loc[i].buf)
                 /\ Goto(i, "put_tx")
                 /\ UNCHANGED ret
            ELSE /\ Return(i, regErrInternal)
                 /\ UNCHANGED bstore
    /\ UNCHANGED << workers, clients, mstore, nput, puts, rq, loc, resp >>

PutOutcomes == {"ok", "quota", "error"}

\* manifestHandler.Put with outcome o: a failed Put stores nothing
ManifestPutOutcome(ms, repo, ref, mf, blobs, o) ==
    IF o = "ok" THEN ManifestPut(ms, repo, ref, mf, blobs) ELSE ms

\* multierr.Combine of the errors of the two Puts; errors.Is finds a quota error in it
Combine(o1, o2) ==
    IF o1 = "quota" \/ o2 = "quota" THEN "quota"
    ELSE IF o1 = "error" \/ o2 = "error" THEN "error"
    ELSE ""

\* a transaction that refuses a manifest whose digest is recorded already
TxBodyOnce(ms, repo, target, mf, blobs, o1, o2) ==
    IF Key(repo, HashString(mf.digest)) \in DOMAIN ms
    THEN [store |-> ms, err |-> "error"]
    ELSE [store |-> ManifestPutOutcome(
                        ManifestPutOutcome(ms, repo, HashString(mf.digest), mf, blobs, o1),
                        repo, target, mf, blobs, o2),
          err |-> Combine(o1, o2)]

\* a transaction that records the manifest under the target only
TxBodyTargetOnly(ms, repo, target, mf, blobs, o1, o2) ==
    [store |-> ManifestPutOutcome(ms, repo, target, mf, blobs, o2), err |-> Combine(o1, o2)]

\* a transaction that drops the record of the digest the target pointed at before
TxBodyReplace(ms, repo, target, mf, blobs, o1, o2) ==
    LET old == IF Key(repo, target) \in DOMAIN ms
               THEN {Key(repo, HashString(ms[Key(repo, target)].digest))} ELSE {}
        s0 == [k \in DOMAIN ms \ old |-> ms[k]]
        s1 == ManifestPutOutcome(s0, repo, HashString(mf.digest), mf, blobs, o1)
        s2 == ManifestPutOutcome(s1, repo, target, mf, blobs, o2)
    IN  [store |-> s2, err |-> Combine(o1, o2)]

\* the function handlePut runs in the transaction: the record is put under the
\* digest and under the target
TxBody(ms, repo, target, mf, blobs, o1, o2) ==
    LET s1 == ManifestPutOutcome(ms, repo, HashString(mf.digest), mf, blobs, o1)
        s2 == ManifestPutOutcome(s1, repo, target, mf, blobs, o2)
    IN  [store |-> s2, err |-> Combine(o1, o2)]

\* db.RunTx: the writes of fn are committed iff fn returns no error
RunTx(ms, tx) == [store |-> IF tx.err = "" THEN tx.store ELSE ms, err |-> tx.err]

\* the two Puts run outside a transaction
PutUnwrapped(ms, repo, target, mf, blobs, o1, o2) ==
    TxBody(ms, repo, target, mf, blobs, o1, o2)

\* err := db.RunTx(req.Context(), func ...)
PutTransaction(ms, repo, target, mf, blobs, o1, o2) ==
    RunTx(ms, TxBody(ms, repo, target, mf, blobs, o1, o2))

\* a handlePut that knows no quota error
TxErrorInternal(err) == IF err = "" THEN NoError ELSE regErrInternal

\* handlePut: the regError of the error of the transaction
TxError(err) ==
    IF err = "quota" THEN regErrDeniedQuotaExceeded
    ELSE IF err # "" THEN regErrInternal
    ELSE NoError

\* the 201 response of handlePut
Created(path, mf) ==
    [NoResponse EXCEPT !.status = 201, !.digest = HashString(mf.digest),
                       !.subject = HashString(mf.digest),
                       !.location = path \o << HashString(mf.digest) >>]

PutRecord(i) == [repo |-> RepoOf(rq[i].path), target |-> TargetOf(rq[i].path),
                 ctype |-> rq[i].ctype, body |-> rq[i].body]

\* handlePut: the transaction and the response
PutTx(i) ==
    /\ pc[i] = "put_tx"
    /\ \E o1 \in PutOutcomes, o2 \in PutOutcomes :
         LET repo == RepoOf(rq[i].path)
             target == TargetOf(rq[i].path)
             deps == Dependencies(mstore, repo, rq[i].ctype, rq[i].body, FALSE)
             tx == PutTransaction(mstore, repo, target, loc[i].m, deps.blobs, o1, o2)
         IN  /\ calls' = [calls EXCEPT ![i] =
                            @ \o << Call("manifest.Put", o1), Call("manifest.Put", o2) >>]
             /\ mstore' = tx.store
             /\ IF tx.err = ""
                THEN /\ resp' = [resp EXCEPT ![i] = Created(rq[i].path, loc[i].m)]
                     /\ puts' = Append(puts, PutRecord(i))
                     /\ Return(i, NoError)
                ELSE /\ Return(i, TxError(tx.err))
                     /\ UNCHANGED << resp, puts >>
    /\ UNCHANGED << workers, clients, bstore, nput, rq, loc >>

(***************************************************************************)
(* handleTags, handleCatalog, handleReferrers.                             *)
(***************************************************************************)
\* the response of a listing: Content-Length and status 200
Listing(name, list, manifests) ==
    [NoResponse EXCEPT !.status = 200, !.clen = 2 + Len(list) + Len(manifests),
                       !.name = name, !.list = list, !.manifests = manifests]

\* handleTags: the method and m.authz.Authorize(ctx, repo, ActionRead)
Tags(i) ==
    /\ pc[i] = "handleTags"
    /\ IF rq[i].method = "GET"
       THEN \E o \in AuthzOutcomes :
              /\ Called(i, "authz", o)
              /\ IF o = "ok" THEN Goto(i, "tags_list") /\ UNCHANGED ret
                 ELSE Return(i, AuthzError(o))
       ELSE /\ Return(i, regErrMethodUnknown)
            /\ UNCHANGED calls
    /\ UNCHANGED << workers, clients, mstore, bstore, nput, puts, rq, loc, resp >>

\* an n that is always the default
TagsNDefault(ns) == [ok |-> ns = "" \/ Atoi(ns).ok, n |-> 10000]

\* an n that drops the error of Atoi, as handleCatalog's does
TagsNLenient(ns) == [ok |-> TRUE, n |-> IF ns = "" THEN 10000 ELSE Atoi(ns).n]

\* n of handleTags: 10000 by default, the parsed query parameter otherwise
TagsN(ns) == IF ns = "" THEN [ok |-> TRUE, n |-> 10000] ELSE Atoi(ns)

\* handleTags: the query, m.manifestHandler.ListTags and the response
TagsList(i) ==
    /\ pc[i] = "tags_list"
    /\ LET repo == RepoOf(rq[i].path)
           n == TagsN(rq[i].n)
       IN  IF ~n.ok
           THEN /\ Return(i, RegError(400, "BAD_REQUEST", "parsing n", -1))
                /\ loc' = [loc EXCEPT ![i].last = rq[i].last]
                /\ UNCHANGED << calls, resp >>
           ELSE \E down \in BOOLEAN, w \in {"ok", "error"} :
                  LET t == ListTags(mstore, repo, n.n, rq[i].last)
                      err == IF down THEN "error" ELSE t.err
                  IN  /\ loc' = [loc EXCEPT ![i].n = n.n, ![i].last = rq[i].last]
                      /\ IF err # ""
                         THEN /\ w = "ok"
                              /\ Called(i, "manifest.ListTags", err)
                              /\ Return(i, IF err = "name_unknown" THEN regErrNameUnknown
                                           ELSE regErrInternal)
                              /\ UNCHANGED resp
                         ELSE /\ calls' = [calls EXCEPT ![i] =
                                    @ \o << Call("manifest.ListTags", "ok"), Call("resp.Write", w) >>]
                              /\ resp' = [resp EXCEPT ![i] = Listing(repo, t.tags, <<>>)]
                              /\ Return(i, IF w = "ok" THEN NoError ELSE regErrInternal)
    /\ UNCHANGED << workers, clients, mstore, bstore, nput, puts, rq >>

\* an n that is the default when Atoi fails
CatalogNDefault(ns) == IF ns = "" \/ ~Atoi(ns).ok THEN 10000 ELSE Atoi(ns).n

\* n of handleCatalog: 10000 by default; the error of Atoi is dropped
CatalogN(ns) == IF ns = "" THEN 10000 ELSE Atoi(ns).n

\* handleCatalog
Catalog(i) ==
    /\ pc[i] = "handleCatalog"
    /\ IF rq[i].method = "GET"
       THEN \E o \in {"ok", "error"}, w \in {"ok", "error"} :
              IF o = "error"
              THEN /\ w = "ok"
                   /\ Called(i, "manifest.List", o)
                   /\ Return(i, regErrInternal)
                   /\ UNCHANGED resp
              ELSE /\ calls' = [calls EXCEPT ![i] =
                         @ \o << Call("manifest.List", "ok"), Call("resp.Write", w) >>]
                   /\ resp' = [resp EXCEPT ![i] =
                         Listing("", [j \in 1..Len(List(mstore, CatalogN(rq[i].n))) |->
                                        S(List(mstore, CatalogN(rq[i].n))[j])], <<>>)]
                   /\ Return(i, IF w = "ok" THEN NoError ELSE regErrInternal)
       ELSE /\ Return(i, regErrMethodUnknown)
            /\ UNCHANGED << calls, resp >>
    /\ loc' = [loc EXCEPT ![i].n = CatalogN(rq[i].n)]
    /\ UNCHANGED << workers, clients, mstore, bstore, nput, puts, rq >>

\* a handleReferrers that validates the target before it authorizes
ReferrersGateUnauthorized(o, target) ==
    IF ~NewHashOk(target)
    THEN RegError(400, "UNSUPPORTED", "Target must be a valid digest", -1)
    ELSE IF o # "ok" THEN AuthzError(o)
    ELSE NoError

\* handleReferrers: what the authorization with outcome o and the validation of the
\* target return
ReferrersGate(o, target) ==
    IF o # "ok" THEN AuthzError(o)
    ELSE IF ~NewHashOk(target)
    THEN RegError(400, "UNSUPPORTED", "Target must be a valid digest", -1)
    ELSE NoError

\* handleReferrers: the method, m.authz.AuthorizeReference and v1.NewHash(target)
Referrers(i) ==
    /\ pc[i] = "handleReferrers"
    /\ IF rq[i].method # "GET"
       THEN /\ Return(i, regErrMethodUnknown)
            /\ UNCHANGED calls
       ELSE \E o \in AuthzOutcomes :
              /\ Called(i, "authz", o)
              /\ IF ReferrersGate(o, TargetOf(rq[i].path)) # NoError
                 THEN Return(i, ReferrersGate(o, TargetOf(rq[i].path)))
                 ELSE Goto(i, "referrers_list") /\ UNCHANGED ret
    /\ UNCHANGED << workers, clients, mstore, bstore, nput, puts, rq, loc, resp >>

\* handleReferrers: digests, err := m.manifestHandler.ListDigests(ctx, repo)
ReferrersList(i) ==
    /\ pc[i] = "referrers_list"
    /\ \E down \in BOOLEAN :
         LET ld == ListDigests(mstore, RepoOf(rq[i].path))
             err == IF down THEN "error" ELSE ld.err
         IN  /\ Called(i, "manifest.ListDigests", IF err = "" THEN "ok" ELSE err)
             /\ IF err = ""
                THEN /\ loc' = [loc EXCEPT ![i].digests = ld.digests]
                     /\ Goto(i, "referrers_scan")
                     /\ UNCHANGED ret
                ELSE /\ Return(i, IF err = "name_unknown" THEN regErrNameUnknown
                                  ELSE regErrInternal)
                     /\ UNCHANGED loc
    /\ UNCHANGED << workers, clients, mstore, bstore, nput, puts, rq, resp >>

\* what the loop of handleReferrers learns of the manifest recorded under digest d
Referrer(ms, bs, repo, d) ==
    LET rec == ManifestGet(ms, repo, HashString(d))
        bytes == BlobGet(bs, repo, rec.m.digest)
        subject == SelectSeq(bytes, IsSubj)
        config == SelectSeq(bytes, IsCfg)
    IN  [found |-> rec.err = "",
         blob |-> BlobPresent(bs, repo, rec.m.digest),
         subject |-> IF subject = <<>> THEN NoString ELSE HashString(subject[1].d),
         desc |-> [mediaType |-> rec.m.contentType, size |-> Len(bytes), digest |-> d,
                   artifactType |-> IF config = <<>> THEN "" ELSE config[1].mt]]

\* the loop of handleReferrers over the digests; fault: the call that fails on the
\* first digest, if any
ReferrersScan(ms, bs, repo, target, digests, fault) ==
    LET refs == [j \in 1..Len(digests) |-> Referrer(ms, bs, repo, digests[j])]
        failing == {j \in 1..Len(digests) : (j = 1 /\ fault # "") \/ ~refs[j].found \/ ~refs[j].blob}
        first == CHOOSE j \in failing : \A k \in failing : j <= k
        why == IF first = 1 /\ fault # "" THEN fault
               ELSE IF ~refs[first].found THEN "manifest.Get" ELSE "blob.Get"
        matching == SelectSeq(refs, LAMBDA r : r.subject = target)
    IN  IF failing = {}
        THEN [err |-> NoError, manifests |-> [j \in 1..Len(matching) |-> matching[j].desc]]
        ELSE [err |-> IF why = "blob.Get" THEN RegError(404, "BAD_REQUEST", "blob", -1)
                      ELSE regErrInternal,
              manifests |-> <<>>]

\* handleReferrers: the loop over the digests and the response
ReferrersRespond(i) ==
    /\ pc[i] = "referrers_scan"
    /\ \E fault \in {"", "manifest.Get", "blob.Get", "read"}, w \in {"ok", "error"} :
         LET scan == ReferrersScan(mstore, bstore, RepoOf(rq[i].path), TargetOf(rq[i].path),
                                   loc[i].digests, fault)
         IN  /\ fault # "" => loc[i].digests # <<>>
             /\ IF scan.err # NoError
                THEN /\ w = "ok"
                     /\ Called(i, "referrers.loop", "error")
                     /\ Return(i, scan.err)
                     /\ UNCHANGED resp
                ELSE /\ calls' = [calls EXCEPT ![i] =
                           @ \o << Call("referrers.loop", "ok"), Call("resp.Write", w) >>]
                     /\ resp' = [resp EXCEPT ![i] =
                           [Listing("", <<>>, scan.manifests) EXCEPT !.ctype = OCIImageIndex]]
                     /\ Return(i, IF w = "ok" THEN NoError ELSE regErrInternal)
    /\ UNCHANGED << workers, clients, mstore, bstore, nput, puts, rq, loc >>

Next ==
    \E i \in Slots :
        \/ Start(i)
        \/ Finish(i)
        \/ Handle(i)
        \/ GetLookup(i)
        \/ GetBlob(i)
        \/ GetWrite(i)
        \/ GetAudit(i)
        \/ GetRedirectAudit(i)
        \/ GetRedirect(i)
        \/ HeadLookup(i)
        \/ HeadStat(i)
        \/ HeadAudit(i)
        \/ HeadWrite(i)
        \/ PutCheck(i)
        \/ PutBlob(i)
        \/ PutTx(i)
        \/ Tags(i)
        \/ TagsList(i)
        \/ Catalog(i)
        \/ Referrers(i)
        \/ ReferrersList(i)
        \/ ReferrersRespond(i)

Spec == Init /\ [][Next]_vars

\* two requests at a time
InitConc == workers = 2 /\ clients = "concurrent" /\ InitRequests
SpecConc == InitConc /\ [][Next]_vars

\* two requests at a time, the pushes of an index among them
InitIndex == workers = 2 /\ clients = "index" /\ InitRequests
SpecIndex == InitIndex /\ [][Next]_vars

(***************************************************************************)
(* Properties.                                                             *)
(***************************************************************************)
\* the outcomes of the calls the request of slot i made
Outcomes(i) == {calls[i][k].o : k \in 1..Len(calls[i])}

\* the outcomes of a collaborator that fails or refuses
Failures == {"error", "denied", "invalid_name", "read_error", "no_stat", "no_put", "quota"}

\* no collaborator failed or refused during the request of slot i
NoFailure(i) == Outcomes(i) \cap Failures = {}

\* the request of slot i has returned and was a request of the method for a manifest
Served(i, method) ==
    /\ pc[i] = "done"
    /\ rq[i].method = method
    /\ isManifest(rq[i].path)

\* the GET of slot i was answered 200 with the bytes body and their digest
Pulled(i, body) ==
    /\ ret[i] = NoError
    /\ resp[i].status = 200
    /\ resp[i].body = body
    /\ resp[i].digest = HashString(SHA256(body))

\* C1: after a successful PUT of body B to tag TAG of repo R, a GET by TAG and a GET
\* by sha256(B) in R, served by collaborators that do not fail and a blob store that
\* does not redirect, are both answered 200 with body B and Docker-Content-Digest
\* sha256(B).
C1_DigestRoundTrip ==
    \A i \in Slots :
        (Served(i, "GET") /\ NoFailure(i) /\ "redirect" \notin Outcomes(i) /\ puts # <<>>) =>
            LET last == puts[Len(puts)] IN
            ( /\ ~NewHashOk(last.target)
              /\ RepoOf(rq[i].path) = last.repo
              /\ TargetOf(rq[i].path) \in {last.target, HashString(SHA256(last.body))} )
            => Pulled(i, last.body)

\* a GET by digest answered with the body of the PUT to a tag that preceded it
C1_Witness ==
    \E i \in Slots :
        /\ Served(i, "GET") /\ NoFailure(i) /\ puts # <<>>
        /\ ~NewHashOk(puts[Len(puts)].target)
        /\ RepoOf(rq[i].path) = puts[Len(puts)].repo
        /\ TargetOf(rq[i].path) = HashString(SHA256(puts[Len(puts)].body))
        /\ Pulled(i, puts[Len(puts)].body)

\* C2: once bytes B have been stored under digest D in repo R by a PUT, every later
\* GET of D in R (collaborators not failing, no redirect) returns exactly B, whatever
\* PUTs came in between.
C2_DigestImmutable ==
    \A i \in Slots :
        (Served(i, "GET") /\ NoFailure(i) /\ "redirect" \notin Outcomes(i)) =>
            \A k \in 1..Len(puts) :
                ( /\ puts[k].repo = RepoOf(rq[i].path)
                  /\ HashString(SHA256(puts[k].body)) = TargetOf(rq[i].path) )
                => (ret[i] = NoError /\ resp[i].body = puts[k].body)

\* the last two PUTs went to the same tag of the same repo with different bodies
Repointed ==
    /\ Len(puts) >= 2
    /\ puts[Len(puts) - 1].repo = puts[Len(puts)].repo
    /\ puts[Len(puts) - 1].target = puts[Len(puts)].target
    /\ ~NewHashOk(puts[Len(puts)].target)
    /\ SHA256(puts[Len(puts) - 1].body) # SHA256(puts[Len(puts)].body)

\* C3: after two successful PUTs in a row to the same tag T of repo R with bodies B1
\* then B2 of different digests, GET by T returns B2 and GET by sha256(B1) returns B1.
C3_TagRepoint ==
    \A i \in Slots :
        ( /\ Served(i, "GET") /\ NoFailure(i) /\ "redirect" \notin Outcomes(i)
          /\ Repointed
          /\ RepoOf(rq[i].path) = puts[Len(puts)].repo ) =>
            /\ TargetOf(rq[i].path) = puts[Len(puts)].target
                 => Pulled(i, puts[Len(puts)].body)
            /\ TargetOf(rq[i].path) = HashString(SHA256(puts[Len(puts) - 1].body))
                 => Pulled(i, puts[Len(puts) - 1].body)

\* a GET by the old digest answered with the old body after the tag was re-pointed
C3_Witness ==
    \E i \in Slots :
        /\ Served(i, "GET") /\ Repointed
        /\ RepoOf(rq[i].path) = puts[Len(puts)].repo
        /\ TargetOf(rq[i].path) = HashString(SHA256(puts[Len(puts) - 1].body))
        /\ Pulled(i, puts[Len(puts) - 1].body)

\* the keys of the two records the PUT of slot i writes
DigestKey(i) == Key(RepoOf(rq[i].path), HashString(loc[i].m.digest))
TargetKey(i) == Key(RepoOf(rq[i].path), TargetOf(rq[i].path))

\* the step is the transaction of the PUT of slot i
Transacts(i) == pc[i] = "put_tx" /\ pc'[i] = "done"

\* the step leaves both records of the PUT of slot i in the manifest store, equal to
\* the manifest put, and leaves every other record as it was
BothRecorded(i) ==
    /\ DigestKey(i) \in DOMAIN mstore' /\ mstore'[DigestKey(i)] = loc[i].m
    /\ TargetKey(i) \in DOMAIN mstore' /\ mstore'[TargetKey(i)] = loc[i].m
    /\ \A k \in DOMAIN mstore' \ {DigestKey(i), TargetKey(i)} :
           k \in DOMAIN mstore /\ mstore'[k] = mstore[k]

\* C4: the manifest store changes only in the one step that is the transaction of a
\* PUT; that step either fails and leaves the store as it was, also when one of the
\* two Puts succeeded, or succeeds and leaves the record under the digest and the
\* record under the target together.  No state between lets a request see one of the
\* two records without the other.
C4_AtomicDoubleWrite ==
    [][ /\ \A i \in Slots : Transacts(i) =>
              \/ ret'[i] # NoError /\ mstore' = mstore
              \/ ret'[i] = NoError /\ BothRecorded(i)
        /\ (\A i \in Slots : ~Transacts(i)) => mstore' = mstore ]_vars

\* a PUT failed after one of its two Puts succeeded, while a GET in the other slot
\* has looked the manifest up and not yet answered
C4_Witness ==
    \E i, j \in Slots :
        /\ Served(i, "PUT")
        /\ ret[i] = regErrInternal
        /\ \E k \in 1..Len(calls[i]) - 1 :
              /\ calls[i][k] = Call("manifest.Put", "ok")
              /\ calls[i][k + 1] = Call("manifest.Put", "error")
        /\ rq[j].method = "GET" /\ pc[j] = "get_blob"

\* the entries of manifests[] the claims call distributable image or index manifests
IsSubManifest(t) ==
    /\ t.k = "man"
    /\ t.mt # DockerForeignLayer
    /\ t.mt \in {OCIImageIndex, DockerManifestList, OCIManifestSchema1, DockerManifestSchema2}

\* the sub-manifests of the body of slot i that are not recorded in its repo
MissingSubManifests(i) ==
    {j \in 1..Len(rq[i].body) :
        /\ IsSubManifest(rq[i].body[j])
        /\ Key(RepoOf(rq[i].path), HashString(rq[i].body[j].d)) \notin DOMAIN mstore}

\* the request of slot i is a PUT of an index that lists a sub-manifest not recorded
IndexPutMissing(i) ==
    /\ rq[i].method = "PUT"
    /\ isManifest(rq[i].path)
    /\ rq[i].ctype \in {OCIImageIndex, DockerManifestList}
    /\ ValidJSON(rq[i].body)
    /\ MissingSubManifests(i) # {}

\* the first sub-manifest of the body of slot i that is not recorded
FirstMissing(i) ==
    rq[i].body[CHOOSE j \in MissingSubManifests(i) : \A k \in MissingSubManifests(i) : j <= k].d

\* the answer to an index with a missing sub-manifest
MissingAnswered(i) ==
    (pc[i] = "done" /\ IndexPutMissing(i) /\ NoFailure(i)) =>
        /\ ret[i].status = 404
        /\ ret[i].code = "MANIFEST_UNKNOWN"
        /\ ret[i].digest = FirstMissing(i)
        /\ resp[i] = NoResponse

\* C5: a PUT with an index Content-Type whose body lists a distributable image or
\* index sub-manifest that is not recorded in the same repo returns 404
\* MANIFEST_UNKNOWN naming that digest (collaborators not failing), and no step of the
\* request changes the manifest store or the blob store.
C5_IndexDependency ==
    /\ [](\A i \in Slots : MissingAnswered(i))
    /\ [][ \A i \in Slots : (pc[i] # "idle" /\ IndexPutMissing(i) /\ pc'[i] # pc[i])
                => (mstore' = mstore /\ bstore' = bstore) ]_vars

\* an index of two images was refused for the second, the first being recorded
C5_Witness ==
    \E i \in Slots :
        /\ pc[i] = "done" /\ IndexPutMissing(i) /\ NoFailure(i)
        /\ rq[i].body = IndexAB
        /\ Key(RepoOf(rq[i].path), HashString(DigestA)) \in DOMAIN mstore
        /\ ret[i].code = "MANIFEST_UNKNOWN" /\ ret[i].digest = DigestB

\* the request of slot i is a PUT that was authorized and whose body, read in full,
\* is JSON with a top-level blobs array of at least least elements
BlobsPut(i, least) ==
    /\ rq[i].method = "PUT"
    /\ isManifest(rq[i].path)
    /\ calls[i] # <<>> /\ calls[i][1] = Call("authz", "ok")
    /\ Call("req.Body.Read", "error") \notin {calls[i][k] : k \in 1..Len(calls[i])}
    /\ ValidJSON(rq[i].body)
    /\ \E j \in 1..Len(rq[i].body) : rq[i].body[j].k = "blobs" /\ rq[i].body[j].n >= least

BlobsAnswered(i) ==
    (pc[i] = "done" /\ BlobsPut(i, 1)) =>
        /\ resp[i] = NoResponse
        /\ \/ ret[i].status = 400 /\ ret[i].code = "MANIFEST_INVALID"
           \/ /\ IsIndex(rq[i].ctype)
              /\ ret[i].status = 404 /\ ret[i].code = "MANIFEST_UNKNOWN"
              /\ calls[i][Len(calls[i])].c = "manifest.Get"
              /\ calls[i][Len(calls[i])].o # "ok"

Supported(path) == IF isManifest(path) THEN {"GET", "HEAD", "PUT"} ELSE {"GET"}

\* the calls of the manifest store, the blob store and the auditor
StoreCalls ==
    {"manifest.Get", "manifest.Put", "manifest.ListTags", "manifest.List",
     "manifest.ListDigests", "blob.Get", "blob.Stat", "blob.Put", "referrers.loop",
     "audit.AuditPull"}

\* C8: on the manifests, tags/list, _catalog and referrers endpoints a request whose
\* method the endpoint does not support returns METHOD_UNKNOWN (405), writes no
\* response of its own and calls neither the manifest store, the blob store nor the
\* auditor.
C8_MethodGating ==
    \A i \in Slots :
        (pc[i] = "done" /\ rq[i].method \notin Supported(rq[i].path)) =>
            /\ ret[i].status = 405
            /\ ret[i].code = "METHOD_UNKNOWN"
            /\ resp[i] = NoResponse
            /\ \A k \in 1..Len(calls[i]) : calls[i][k].c \notin StoreCalls

\* a DELETE of a manifest was refused
C8_Witness ==
    \E i \in Slots :
        /\ Served(i, "DELETE")
        /\ ret[i] = regErrMethodUnknown

\* the number of calls of AuditPull the request of slot i made
AuditCount(i) == Cardinality({k \in 1..Len(calls[i]) : calls[i][k].c = "audit.AuditPull"})

OutcomeOf(i, c) ==
    LET ks == {k \in 1..Len(calls[i]) : calls[i][k].c = c} IN
    IF ks = {} THEN "none" ELSE calls[i][CHOOSE k \in ks : \A x \in ks : k <= x].o

\* the status the client of slot i gets: the one the handler wrote, or else the one
\* of the error it returned
StatusSent(i) == IF resp[i].status # 0 THEN resp[i].status ELSE ret[i].status

\* slot i served a GET and slot j a HEAD of the same reference, both in the state of
\* the manifest store that still holds
SameReference(i, j) ==
    /\ Served(i, "GET") /\ Served(j, "HEAD")
    /\ rq[i].path = rq[j].path
    /\ loc[i].at = Len(puts) /\ loc[j].at = Len(puts)

\* same status, Docker-Content-Digest, Content-Type and Content-Length
SameAnswer(i, j) ==
    /\ StatusSent(i) = StatusSent(j)
    /\ resp[i].digest = resp[j].digest
    /\ resp[i].ctype = resp[j].ctype
    /\ resp[i].clen = resp[j].clen

\* C7 as stated: a HEAD has the same status, Docker-Content-Digest, Content-Type and
\* Content-Length as a GET of the same reference in the same state, however the
\* authorizer, the Get and the Stat of the blob store behave.
C7_HeadAsGet ==
    \A i, j \in Slots : SameReference(i, j) => SameAnswer(i, j)

\* the authorizer and the manifest store answered both requests alike, and the blob
\* store answered Get and Stat alike: no such blob, a failure, or bytes and their size
AnsweredAlike(i, j) ==
    /\ OutcomeOf(i, "authz") = OutcomeOf(j, "authz")
    /\ OutcomeOf(i, "manifest.Get") = OutcomeOf(j, "manifest.Get")
    /\ << OutcomeOf(i, "blob.Get"), OutcomeOf(j, "blob.Stat") >> \in
          { << "none", "none" >>, << "unknown", "unknown" >>, << "error", "error" >>,
            << "bytes", "ok" >> }

\* C7, amended: a HEAD has the same status, Docker-Content-Digest, Content-Type and
\* Content-Length as a GET of the same reference in the same state whenever the
\* authorizer gives both the same verdict, the manifest store answers both lookups
\* alike and the blob store answers Get and Stat alike: both fail, or Get gives
\* readable bytes, not a redirect, and Stat their size.
C7_HeadAsGetAlike ==
    \A i, j \in Slots : (SameReference(i, j) /\ AnsweredAlike(i, j)) => SameAnswer(i, j)

\* a GET and a HEAD of a recorded manifest, both answered 200 with its headers
C7_Witness ==
    \E i, j \in Slots :
        /\ SameReference(i, j) /\ AnsweredAlike(i, j)
        /\ StatusSent(i) = 200 /\ StatusSent(j) = 200
        /\ resp[j].clen > 0 /\ resp[j].ctype = OCIManifestSchema1

\* the calls the request of slot i made before it called AuditPull
BeforeAudit(i) ==
    LET k == CHOOSE x \in 1..Len(calls[i]) : calls[i][x].c = "audit.AuditPull"
    IN  SubSeq(calls[i], 1, k - 1)

\* slots i and j served the same pull and differ in the outcome of AuditPull only:
\* it failed for i and succeeded for j
AuditFailedFor(i, j) ==
    /\ Served(i, "GET") \/ Served(i, "HEAD")
    /\ pc[j] = "done" /\ rq[j] = rq[i]
    /\ OutcomeOf(i, "audit.AuditPull") = "error"
    /\ OutcomeOf(j, "audit.AuditPull") = "ok"
    /\ BeforeAudit(i) = BeforeAudit(j)
    /\ loc[i].m = loc[j].m /\ loc[i].buf = loc[j].buf /\ loc[i].l = loc[j].l

\* C10: a manifest GET (bytes or redirect) or HEAD during which AuditPull fails sends
\* the status, headers and body, and returns the result, of the same request during
\* which AuditPull succeeds.
C10_AuditFailureHidden ==
    \A i, j \in Slots : AuditFailedFor(i, j) => (resp[i] = resp[j] /\ ret[i] = ret[j])

\* a HEAD whose audit failed and a HEAD whose audit succeeded, both answered 200
C10_Witness ==
    \E i, j \in Slots :
        /\ AuditFailedFor(i, j)
        /\ rq[i].method = "HEAD"
        /\ resp[i].status = 200 /\ resp[j].status = 200

\* slot i holds a request of the method for a manifest, returned or not
Serving(i, method) ==
    /\ rq[i].method = method
    /\ isManifest(rq[i].path)

\* C11: for a manifest GET (bytes or redirect branch) or HEAD the audit entry is
\* recorded only after the response headers have been written: at no point of a
\* request, the point where it may be canceled included, is there an audit entry for
\* it while its headers are not yet written.
C11_AuditAfterHeaders ==
    \A i \in Slots :
        ((Serving(i, "GET") \/ Serving(i, "HEAD")) /\ AuditCount(i) > 0)
            => resp[i].status # 0

\* the record of the manifest the PUT of slot i carries
RecordOf(i) ==
    [contentType |-> rq[i].ctype, digest |-> SHA256(rq[i].body), size |-> Len(rq[i].body)]

\* slots i and j served PUTs of different bodies to the same tag of the same repo and
\* both answered 201
BothCreated(i, j) ==
    /\ i # j
    /\ Served(i, "PUT") /\ Served(j, "PUT")
    /\ rq[i].path = rq[j].path
    /\ ~NewHashOk(TargetOf(rq[i].path))
    /\ rq[i].body # rq[j].body
    /\ ret[i] = NoError /\ resp[i].status = 201
    /\ ret[j] = NoError /\ resp[j].status = 201

\* the manifest of the PUT of slot i is found by its digest, with its own bytes
ByDigest(i) ==
    LET repo == RepoOf(rq[i].path)
        got == ManifestGet(mstore, repo, HashString(SHA256(rq[i].body)))
    IN  /\ got.err = ""
        /\ got.m = RecordOf(i)
        /\ BlobPresent(bstore, repo, got.m.digest)
        /\ BlobGet(bstore, repo, got.m.digest) = rq[i].body

\* C12: when two PUTs to the same tag of a repo with bodies B1 and B2 have run, in
\* whatever interleaving, and both answered 201, the tag resolves to the whole record
\* of one of the two, and sha256(B1) and sha256(B2) both resolve to their own record
\* and bytes.
C12_LastWriterWins ==
    \A i, j \in Slots :
        BothCreated(i, j) =>
            /\ ManifestGet(mstore, RepoOf(rq[i].path), TargetOf(rq[i].path)).err = ""
            /\ ManifestGet(mstore, RepoOf(rq[i].path), TargetOf(rq[i].path)).m
                  \in {RecordOf(i), RecordOf(j)}
            /\ ByDigest(i) /\ ByDigest(j)

\* two PUTs that arrived in the same state of the store, neither having committed
\* when the other arrived, both answered 201 and the tag resolves to the one of slot i
C12_Witness ==
    \E i, j \in Slots :
        /\ BothCreated(i, j)
        /\ loc[i].at = loc[j].at
        /\ ManifestGet(mstore, RepoOf(rq[i].path), TargetOf(rq[i].path)).m = RecordOf(i)
        /\ ByDigest(j)

\* the request of slot i is one the handlers authorize: a GET, HEAD or PUT of a
\* manifest, a GET of the tags or of the referrers
Gated(i) ==
    /\ rq[i] # NoRequest
    /\ \/ isManifest(rq[i].path) /\ rq[i].method \in {"GET", "HEAD", "PUT"}
       \/ isTags(rq[i].path) /\ rq[i].method = "GET"
       \/ isReferrers(rq[i].path) /\ rq[i].method = "GET"

\* the answer to the outcome o of the authorizer
Refusal(o) ==
    CASE o = "denied" -> [status |-> 403, code |-> "DENIED"]
      [] o = "invalid_name" -> [status |-> 400, code |-> "NAME_INVALID"]
      [] OTHER -> [status |-> 500, code |-> "INTERNAL"]

\* the authorizer is the first call of a gated request, and a request it refuses has
\* returned the answer to the refusal having made no other call and written nothing
GateFirst(i) ==
    (Gated(i) /\ calls[i] # <<>>) =>
        /\ calls[i][1].c = "authz"
        /\ calls[i][1].o # "ok" =>
              /\ pc[i] = "done"
              /\ Len(calls[i]) = 1
              /\ ret[i].status = Refusal(calls[i][1].o).status
              /\ ret[i].code = Refusal(calls[i][1].o).code
              /\ resp[i] = NoResponse

\* C13: for manifest GET/HEAD/PUT, tag listing and referrers requests the authorizer
\* is called before the request body is read and before any call of the manifest
\* store, the blob store or the auditor; AccessDenied gives DENIED,
\* InvalidArtifactName gives NAME_INVALID, any other error INTERNAL, and a refused
\* request makes no other call and changes neither store.
C13_AuthorizationGate ==
    /\ [](\A i \in Slots : GateFirst(i))
    /\ [][ \A i \in Slots :
             (Gated(i) /\ calls'[i] # <<>> /\ calls'[i][1].o # "ok" /\ pc'[i] # pc[i])
                => (mstore' = mstore /\ bstore' = bstore /\ puts' = puts) ]_vars

\* a PUT was refused for the name of its artifact, after manifests were recorded
C13_Witness ==
    \E i \in Slots :
        /\ Served(i, "PUT")
        /\ calls[i] = << Call("authz", "invalid_name") >>
        /\ ret[i].code = "NAME_INVALID"
        /\ puts # <<>>

\* the PUTs committed into the repo
PutsInto(repo) == {k \in 1..Len(puts) : puts[k].repo = repo}

\* the reference was given to a manifest of the repo by a committed PUT, as its target
\* or as its digest
EverPut(repo, ref) ==
    \E k \in PutsInto(repo) : ref \in {puts[k].target, HashString(SHA256(puts[k].body))}

\* slot i served an authorized GET or HEAD of a manifest and the manifest store did
\* not fail
Looked(i) ==
    /\ Served(i, "GET") \/ Served(i, "HEAD")
    /\ OutcomeOf(i, "authz") = "ok"
    /\ OutcomeOf(i, "manifest.Get") # "error"

\* the request of slot i called neither the blob store nor the auditor and wrote nothing
NoPull(i) ==
    /\ \A k \in 1..Len(calls[i]) : calls[i][k].c \notin {"blob.Get", "blob.Stat", "audit.AuditPull"}
    /\ resp[i] = NoResponse

\* C14: an authorized GET or HEAD of a reference that was never PUT into a repo that
\* exists returns 404 MANIFEST_UNKNOWN, one in a repo nothing was PUT into returns
\* NAME_UNKNOWN; neither calls the blob store or the auditor.
C14_UnknownReference ==
    \A i \in Slots :
        Looked(i) =>
            LET repo == RepoOf(rq[i].path)
                ref == TargetOf(rq[i].path)
            IN  /\ (PutsInto(repo) # {} /\ ~EverPut(repo, ref)) =>
                      (ret[i].status = 404 /\ ret[i].code = "MANIFEST_UNKNOWN" /\ NoPull(i))
                /\ PutsInto(repo) = {} =>
                      (ret[i].code = "NAME_UNKNOWN" /\ NoPull(i))

\* a HEAD of a digest never pushed into a repo that holds a manifest
C14_Witness ==
    \E i \in Slots :
        /\ Looked(i) /\ rq[i].method = "HEAD"
        /\ NewHashOk(TargetOf(rq[i].path))
        /\ PutsInto(RepoOf(rq[i].path)) # {}
        /\ ~EverPut(RepoOf(rq[i].path), TargetOf(rq[i].path))
        /\ ret[i].code = "MANIFEST_UNKNOWN"

\* the path ends in /manifests/<d>
EndsInManifest(path, d) ==
    /\ Len(path) >= 2
    /\ path[Len(path) - 1] = S("manifests")
    /\ path[Len(path)] = d

\* C15: a successful PUT of body B to /v2/<repo>/manifests/<target> responds 201 with
\* Docker-Content-Digest and OCI-Subject equal to sha256(B) and a Location whose path
\* ends in /manifests/<sha256(B)>, for every target, tag or digest.
C15_PutResponse ==
    \A i \in Slots :
        (Served(i, "PUT") /\ ret[i] = NoError) =>
            /\ resp[i].status = 201
            /\ resp[i].digest = HashString(SHA256(rq[i].body))
            /\ resp[i].subject = HashString(SHA256(rq[i].body))
            /\ EndsInManifest(resp[i].location, HashString(SHA256(rq[i].body)))

\* the subject.digest of a manifest body, if it has one
SubjectOf(body) ==
    IF ParseManifest(body).subject = <<>> THEN NoString
    ELSE HashString(ParseManifest(body).subject[1].d)

\* the distinct manifests committed into the repo whose subject is the digest
ReferringTo(repo, digest) ==
    {b \in {puts[k].body : k \in PutsInto(repo)} : SubjectOf(b) = digest}

\* the content types the manifest was committed with into the repo
RecordedTypes(repo, body) == {puts[k].ctype : k \in {x \in PutsInto(repo) : puts[x].body = body}}

\* slot i answered a GET of the referrers of a digest with an index
Indexed(i) ==
    /\ pc[i] = "done"
    /\ rq[i].method = "GET"
    /\ isReferrers(rq[i].path)
    /\ ret[i] = NoError

\* the descriptor the referrers index owes to the manifest
IsDescriptorOf(desc, repo, body) ==
    /\ desc.digest = SHA256(body)
    /\ desc.size = Len(body)
    /\ desc.mediaType \in RecordedTypes(repo, body)
    /\ desc.artifactType = (IF ParseManifest(body).config = <<>> THEN ""
                            ELSE ParseManifest(body).config[1].mt)

\* C16: after any sequence of successful PUTs into repo R, GET /v2/R/referrers/D returns
\* an index with exactly one descriptor (digest, size, mediaType, artifactType) for each
\* distinct stored manifest whose subject.digest is D, and no other descriptor.
C16_ReferrersComplete ==
    \A i \in Slots :
        Indexed(i) =>
            LET repo == RepoOf(rq[i].path)
                referring == ReferringTo(repo, TargetOf(rq[i].path))
                listed == resp[i].manifests
            IN  /\ Len(listed) = Cardinality(referring)
                /\ \A b \in referring :
                     \E j \in 1..Len(listed) : IsDescriptorOf(listed[j], repo, b)

\* slot i served a GET of the referrers of a target that is no digest
NoDigestAsked(i) ==
    /\ pc[i] = "done"
    /\ rq[i].method = "GET"
    /\ isReferrers(rq[i].path)
    /\ ~NewHashOk(TargetOf(rq[i].path))

\* C17: an authorized GET of /v2/R/referrers/<target> whose target does not parse as a
\* digest returns 400 UNSUPPORTED and calls neither store; the validation runs after the
\* authorization, so that a caller without access gets DENIED and not UNSUPPORTED.
C17_InvalidDigest ==
    \A i \in Slots :
        NoDigestAsked(i) =>
            /\ Len(calls[i]) = 1 /\ calls[i][1].c = "authz"
            /\ calls[i][1].o = "ok" => (ret[i].status = 400 /\ ret[i].code = "UNSUPPORTED")
            /\ calls[i][1].o = "denied" => ret[i] = regErrDenied
            /\ resp[i] = NoResponse

\* an authorized GET of the referrers of a tag was refused as UNSUPPORTED
C17_Witness ==
    \E i \in Slots :
        /\ NoDigestAsked(i)
        /\ calls[i] = << Call("authz", "ok") >>
        /\ ret[i].code = "UNSUPPORTED"

\* the tags committed into the repo, in the order of the store
PushedTags(repo) ==
    SelectSeq(TagOrder, LAMBDA t : \E k \in PutsInto(repo) : puts[k].target = t)

\* the n tags of the sequence that follow the tag named last (the first n when no tag
\* is named so)
Page(tags, n, last) ==
    LET at == {j \in 1..Len(tags) : Text(tags[j]) = last}
        start == IF at = {} THEN 0 ELSE CHOOSE j \in at : TRUE
        rest == Len(tags) - start
    IN  [j \in 1..(IF n < rest THEN n ELSE rest) |-> tags[start + j]]

\* slot i answered a GET of the tags of a repo with a list
TagsListed(i) ==
    /\ pc[i] = "done"
    /\ rq[i].method = "GET"
    /\ isTags(rq[i].path)
    /\ ret[i] = NoError

\* C18: after tags were pushed to repo R, GET tags/list?n=N returns name = R and the
\* first N tags in the store's order, and a GET with last = the final tag of a page
\* returns the tags that follow it, none repeated and none skipped; the handler passes
\* repo, n and last to ListTags unchanged and returns its result unmodified.
C18_TagPagination ==
    \A i \in Slots :
        TagsListed(i) =>
            LET repo == RepoOf(rq[i].path)
                tags == PushedTags(repo)
            IN  /\ resp[i].name = repo
                /\ loc[i].last = rq[i].last
                /\ rq[i].n = "1" => loc[i].n = 1
                /\ resp[i].list = ListTags(mstore, repo, loc[i].n, loc[i].last).tags
                /\ resp[i].list = Page(tags, loc[i].n, rq[i].last)
                /\ (rq[i].n = "1" /\ rq[i].last = "" /\ tags # <<>>) =>
                      resp[i].list = << tags[1] >>
                /\ (rq[i].n = "1" /\ Len(tags) = 2 /\ rq[i].last = Text(tags[1])) =>
                      resp[i].list = << tags[2] >>

\* the second page of one tag of a repo with two tags
C18_Witness ==
    \E i \in Slots :
        /\ TagsListed(i)
        /\ PushedTags(RepoOf(rq[i].path)) = << Tag1, Tag2 >>
        /\ rq[i].n = "1" /\ rq[i].last = "v1"
        /\ resp[i].list = << Tag2 >>

\* slot i served an authorized GET of the tags of a repo
TagsAsked(i) ==
    /\ pc[i] = "done"
    /\ rq[i].method = "GET"
    /\ isTags(rq[i].path)
    /\ OutcomeOf(i, "authz") = "ok"

\* the request of slot i called ListTags
ListTagsCalled(i) == \E k \in 1..Len(calls[i]) : calls[i][k].c = "manifest.ListTags"

\* C19: when the query parameter n is absent or empty handleTags calls ListTags with
\* n = 10000; when n is present and no integer it returns 400 BAD_REQUEST and never
\* calls ListTags.
C19_TagsN ==
    \A i \in Slots :
        TagsAsked(i) =>
            /\ rq[i].n = "" => (ListTagsCalled(i) /\ loc[i].n = 10000)
            /\ (rq[i].n # "" /\ ~Atoi(rq[i].n).ok) =>
                  /\ ret[i].status = 400 /\ ret[i].code = "BAD_REQUEST"
                  /\ ~ListTagsCalled(i)
                  /\ resp[i] = NoResponse

\* a GET of tags/list?n=x was refused
C19_Witness ==
    \E i \in Slots :
        /\ TagsAsked(i)
        /\ rq[i].n = "x"
        /\ ret[i].code = "BAD_REQUEST"
        /\ calls[i] = << Call("authz", "ok") >>

\* slot i served a GET of /v2/_catalog
CatalogAsked(i) ==
    /\ pc[i] = "done"
    /\ rq[i].method = "GET"
    /\ rq[i].path = CatalogPath

\* the request of slot i went to the store's List without any authorization, and its
\* n was no reason of an error
ListedUnchecked(i) ==
    /\ calls[i] # <<>> /\ calls[i][1].c = "manifest.List"
    /\ \A k \in 1..Len(calls[i]) : calls[i][k].c # "authz"
    /\ NoFailure(i) => (ret[i] = NoError /\ resp[i].status = 200)
    /\ ret[i].code # "BAD_REQUEST"

PutResults(i) == {calls[i][k].o : k \in {x \in 1..Len(calls[i]) : calls[i][x].c = "manifest.Put"}}

\* the transaction of the PUT of slot i has failed and the PUT has returned
TxFailed(i) ==
    /\ Served(i, "PUT")
    /\ PutResults(i) \cap {"quota", "error"} # {}

\* C21: when the manifest store's Put fails with quota-exceeded inside the transaction of
\* a PUT, the response is 403 DENIED with the quota message and no 201 headers, and the
\* manifest store holds what it held before, neither record of that PUT; any other error
\* of the transaction yields INTERNAL.
C21_QuotaFailure ==
    /\ [](\A i \in Slots :
            TxFailed(i) =>
                /\ resp[i] = NoResponse
                /\ "quota" \in PutResults(i) =>
                      (ret[i].status = 403 /\ ret[i].code = "DENIED"
                          /\ ret[i].msg = "quota exceeded")
                /\ "quota" \notin PutResults(i) => ret[i] = regErrInternal)
    /\ [][ \A i \in Slots :
             (pc[i] = "put_tx" /\ pc'[i] = "done" /\ ret'[i] # NoError)
                => (mstore' = mstore /\ puts' = puts) ]_vars

\* the first Put of a transaction succeeded, the second met the quota, and the PUT
\* was refused
C21_Witness ==
    \E i \in Slots :
        /\ TxFailed(i)
        /\ calls[i][Len(calls[i]) - 1] = Call("manifest.Put", "ok")
        /\ calls[i][Len(calls[i])] = Call("manifest.Put", "quota")
        /\ ret[i] = regErrDeniedQuotaExceeded
        /\ ManifestGet(mstore, RepoOf(rq[i].path), TargetOf(rq[i].path)).err # ""

\* the reference of the request of slot i was given to a manifest of its repo by a PUT
\* committed before the request arrived
PutBefore(i) ==
    \E k \in PutsInto(RepoOf(rq[i].path)) :
        /\ k <= loc[i].at
        /\ TargetOf(rq[i].path) \in {puts[k].target, HashString(SHA256(puts[k].body))}

\* C22: across any sequence and interleaving of requests of any method, DELETE
\* included, the (repo, reference) keys that resolve to a manifest only grow: no step
\* removes a key, and the lookup of a reference that a PUT had recorded before never
\* finds it unknown.
C22_NoDeletion ==
    /\ [](\A i \in Slots :
            (rq[i].method \in {"GET", "HEAD"} /\ isManifest(rq[i].path) /\ PutBefore(i))
                => OutcomeOf(i, "manifest.Get") \notin {"manifest_unknown", "name_unknown"})
    /\ [][ \A k \in DOMAIN mstore :
             ManifestGet(mstore', k.repo, k.ref).err = "" ]_vars

\* a DELETE of a recorded tag was refused and the tag still resolves
C22_Witness ==
    \E i \in Slots :
        /\ Served(i, "DELETE")
        /\ PutBefore(i)
        /\ ret[i] = regErrMethodUnknown
        /\ ManifestGet(mstore, RepoOf(rq[i].path), TargetOf(rq[i].path)).err = ""

\* the record points at bytes the blob store of the repo holds under its digest
Coherent(k) ==
    /\ BlobPresent(bstore, k.repo, mstore[k].digest)
    /\ SHA256(BlobGet(bstore, k.repo, mstore[k].digest)) = mstore[k].digest
    /\ Len(BlobGet(bstore, k.repo, mstore[k].digest)) = mstore[k].size

\* C23: in every reachable state, the intermediate states of concurrent PUTs included,
\* every record of the manifest store, under a tag or a digest, has blob.digest =
\* sha256 of bytes the blob store already holds under that digest and blob.size = their
\* length; the blob Put precedes the transaction that makes the record visible.
C23_RecordBlobCoherence ==
    /\ \A k \in DOMAIN mstore : Coherent(k)
    /\ \A i \in Slots : pc[i] = "put_tx" => OutcomeOf(i, "blob.Put") = "ok"

\* one PUT has committed its records while another, of another manifest, has put its
\* blob and not yet run its transaction
C23_Witness ==
    \E i, j \in Slots :
        /\ pc[i] = "put_tx"
        /\ Served(j, "PUT") /\ ret[j] = NoError
        /\ rq[i].body # rq[j].body
        /\ BlobPresent(bstore, RepoOf(rq[i].path), loc[i].m.digest)
        /\ Key(RepoOf(rq[i].path), HashString(loc[i].m.digest)) \notin DOMAIN mstore
        /\ Key(RepoOf(rq[j].path), HashString(SHA256(rq[j].body))) \in DOMAIN mstore

\* the digests of the distributable image and index sub-manifests the bytes list
SubManifests(bytes) ==
    {t.d : t \in {bytes[j] : j \in {x \in 1..Len(bytes) :
                      /\ bytes[x].k = "man"
                      /\ bytes[x].mt # DockerForeignLayer
                      /\ bytes[x].mt \in {OCIImageIndex, DockerManifestList,
                                          OCIManifestSchema1, DockerManifestSchema2}}}}

\* the record under key k is an index whose sub-manifests are all recorded in its repo
Closed(k) ==
    IsIndex(mstore[k].contentType) =>
        \A d \in SubManifests(BlobGet(bstore, k.repo, mstore[k].digest)) :
            ManifestGet(mstore, k.repo, HashString(d)).err = ""

\* C24: in every reachable state, for every manifest recorded with an index content
\* type, each distributable image or index sub-manifest digest it lists is recorded in
\* the same repo, also when PUTs run concurrently and the dependency check is not in
\* the transaction of the store.
C24_IndexClosure == \A k \in DOMAIN mstore : Closed(k)

\* the PUT of an index that arrived before its image was recorded, along with the PUT
\* of the image, was accepted
C24_Witness ==
    \E i, j \in Slots :
        /\ Served(i, "PUT") /\ rq[i].body = IndexA /\ ret[i] = NoError
        /\ loc[i].at = 0
        /\ Served(j, "PUT") /\ rq[j].body = ImageA
        /\ IsIndex(mstore[Key(RepoOf(rq[i].path), TargetOf(rq[i].path))].contentType)
        /\ SubManifests(IndexA) = {DigestA}

\* the PUT of slot i repeats the PUT committed last before it arrived: same repo,
\* target, Content-Type and body
Retried(i) ==
    /\ pc[i] # "idle"
    /\ rq[i].method = "PUT" /\ isManifest(rq[i].path)
    /\ loc[i].at >= 1
    /\ puts[loc[i].at] = PutRecord(i)

\* the 201 response the first PUT of the request of slot i got
FirstResponse(i) ==
    [NoResponse EXCEPT !.status = 201,
                       !.digest = HashString(SHA256(rq[i].body)),
                       !.subject = HashString(SHA256(rq[i].body)),
                       !.location = rq[i].path \o << HashString(SHA256(rq[i].body)) >>]

\* C25: repeating a successful PUT with the same repo, target, Content-Type and body
\* returns the same 201 response and leaves the manifest store and the blob store as
\* they were after the first PUT.
C25_PutIdempotent ==
    /\ [](\A i \in Slots :
            (Retried(i) /\ pc[i] = "done" /\ NoFailure(i)) =>
                (ret[i] = NoError /\ resp[i] = FirstResponse(i)))
    /\ [][ \A i \in Slots :
             (Retried(i) /\ pc'[i] # pc[i]) => (mstore' = mstore /\ bstore' = bstore) ]_vars

\* the PUT of an image to a tag was repeated and answered 201 again
C25_Witness ==
    \E i \in Slots :
        /\ Retried(i) /\ pc[i] = "done"
        /\ rq[i].body = ImageB /\ ~NewHashOk(TargetOf(rq[i].path))
        /\ ret[i] = NoError /\ resp[i].status = 201
        /\ Len(puts) = 2 /\ puts[1] = puts[2]

\* the step is one of the request of slot i, which is a PUT of a manifest
PutStep(i) ==
    /\ pc[i] # "idle" /\ pc'[i] # pc[i]
    /\ rq[i].method = "PUT" /\ isManifest(rq[i].path)

\* C26: manifest GET, manifest HEAD, tag listing, catalog and referrers requests,
\* whatever their outcome, leave the manifest store and the blob store unchanged (every
\* step that changes a store is a step of a manifest PUT), and the handler keeps no
\* state between requests.
C26_ReadsKeepStores ==
    /\ [](\A i \in Slots :
            pc[i] = "idle" => (loc[i] = NoLocals /\ resp[i] = NoResponse /\ calls[i] = <<>>))
    /\ [][ (mstore' # mstore \/ bstore' # bstore) => \E i \in Slots : PutStep(i) ]_vars

\* a pull of a recorded manifest was audited and a referrers request found a referrer,
\* while the stores hold manifests
C26_Witness ==
    \E i, j \in Slots :
        /\ Served(i, "GET") /\ ret[i] = NoError /\ AuditCount(i) = 1
        /\ pc[j] = "done" /\ rq[j].method = "GET" /\ isReferrers(rq[j].path)
        /\ ret[j] = NoError /\ Len(resp[j].manifests) = 1
        /\ DOMAIN mstore # {}

\* the status the error table pairs with a wire code (0: the table has no such code)
TableStatus(code) ==
    CASE code \in {"BAD_REQUEST", "UNSUPPORTED", "MANIFEST_INVALID"} -> 400
      [] code \in {"NAME_UNKNOWN", "MANIFEST_UNKNOWN"} -> 404
      [] code = "DENIED" -> 403
      [] code = "METHOD_UNKNOWN" -> 405
      [] OTHER -> 0

\* C27: every error a handler returns pairs its code with the status of the error
\* table (BAD_REQUEST, UNSUPPORTED and MANIFEST_INVALID with 400, NAME_UNKNOWN and
\* MANIFEST_UNKNOWN with 404, DENIED with 403, METHOD_UNKNOWN with 405), the error of
\* the referrers path whose manifest's blob cannot be fetched included.
C27_CodeDeterminesStatus ==
    \A i \in Slots :
        (ret[i] # NoError /\ TableStatus(ret[i].code) # 0)
            => ret[i].status = TableStatus(ret[i].code)

\* the predicates of the classifier that hold of the path
Classes(path) ==
    {c \in {"manifest", "tags", "catalog", "referrers"} :
        \/ c = "manifest" /\ isManifest(path)
        \/ c = "tags" /\ isTags(path)
        \/ c = "catalog" /\ isCatalog(path)
        \/ c = "referrers" /\ isReferrers(path)}

\* C28: for every request path at most one of isManifest, isTags, isCatalog and
\* isReferrers is true, so that the handler selected does not depend on the order in
\* which they are tested.
C28_ClassificationUnambiguous ==
    \A i \in Slots : pc[i] # "idle" => Cardinality(Classes(rq[i].path)) <= 1

\* slot i served the HEAD of a recorded manifest whose blob the store could not stat:
\* it has no Stat capability or its Stat returned an error
StatUnusable(i) ==
    /\ Served(i, "HEAD")
    /\ OutcomeOf(i, "manifest.Get") = "ok"
    /\ OutcomeOf(i, "blob.Stat") \in {"no_stat", "error"}

\* C29: when the manifest record exists but the blob backend cannot stat its blob (it
\* has no Stat capability, or Stat returns an error), HEAD returns INTERNAL (500),
\* writes no success headers and records no audit entry.
C29_HeadStatUnusable ==
    \A i \in Slots :
        StatUnusable(i) =>
            /\ ret[i].status = 500 /\ ret[i].code = "INTERNAL"
            /\ resp[i] = NoResponse
            /\ AuditCount(i) = 0

\* the keys the PUTs that were answered 201 gave to the manifest store
CommittedKeys ==
    {Key(puts[k].repo, puts[k].target) : k \in 1..Len(puts)}
        \cup {Key(puts[k].repo, HashString(SHA256(puts[k].body))) : k \in 1..Len(puts)}

\* C30: every PUT that does not respond 201 leaves the manifest store and the blob
\* store as they were before the request: the manifest store holds the records of the
\* PUTs that were answered 201 and no other, and the blob store holds the bytes of the
\* body only if it held them when the request arrived.
C30_FailedPutNoTrace ==
    \A i \in Slots :
        (Served(i, "PUT") /\ ret[i] # NoError) =>
            /\ DOMAIN mstore = CommittedKeys
            /\ BlobPresent(bstore, RepoOf(rq[i].path), SHA256(rq[i].body)) => loc[i].had
====
